---------------------------- MODULE Spec2Model ----------------------------
(***************************************************************************)
(* A model of the file editor of openhands_aci (editor/editor.py): the     *)
(* commands view, create, str_replace, insert and undo_edit of OHEditor    *)
(* over a small file system, with the per-path edit history.               *)
(*                                                                         *)
(* Text is a sequence of one-character strings.  The operators of the      *)
(* first section compute what the Python str methods used by the editor    *)
(* compute (expandtabs, count, find, replace, split, splitlines).          *)
(***************************************************************************)
EXTENDS Integers, Sequences, FiniteSets, TLC

NL  == "\n"
TAB == "\t"
SP  == " "

(***************************************************************************)
(* Program constants.  The three thresholds are scaled down so that files  *)
(* of a few characters take the streaming path and span several chunks;    *)
(* the code is otherwise followed as written.                              *)
(***************************************************************************)
\* str.expandtabs() is called without argument: tab stops every 8 columns.
TabSize == 8
\* editor.py:109 and :489 compare st_size with 1024 * 1024 (scaled).
SizeLimit == 4
\* editor.py:169 processes a chunk once it holds 1000 lines (scaled).
ChunkLines == 4
\* config.SNIPPET_CONTEXT_WINDOW (scaled).
SNIPPET_CONTEXT_WINDOW == 1

Max(a, b) == IF a >= b THEN a ELSE b
Min(a, b) == IF a <= b THEN a ELSE b

---------------------------------------------------------------------------
(* Python str primitives *)

\* s[i:j] with 0-based, half-open, already clipped indices.
Slice(s, i, j) == SubSeq(s, i + 1, j)

\* s.startswith(sub, i): sub stands in s at 0-based offset i.
MatchAt(s, sub, i) ==
    /\ i + Len(sub) <= Len(s)
    /\ SubSeq(s, i + 1, i + Len(sub)) = sub

\* s.find(sub, start): the lowest offset >= start at which sub stands, or -1.
RECURSIVE Find(_, _, _)
Find(s, sub, start) ==
    IF start + Len(sub) > Len(s) THEN -1
    ELSE IF MatchAt(s, sub, start) THEN start
    ELSE Find(s, sub, start + 1)

\* sub in s
Contains(s, sub) == Find(s, sub, 0) # -1

\* s.count(sub): the number of non-overlapping occurrences, left to right;
\* len(s) + 1 for the empty sub.
RECURSIVE CountFrom(_, _, _)
CountFrom(s, sub, start) ==
    LET idx == Find(s, sub, start)
    IN  IF idx = -1 THEN 0 ELSE 1 + CountFrom(s, sub, idx + Len(sub))

Count(s, sub) == IF sub = << >> THEN Len(s) + 1 ELSE CountFrom(s, sub, 0)

\* s.count('\n', 0, hi)
RECURSIVE CountNL(_, _)
CountNL(s, hi) ==
    IF hi <= 0 THEN 0
    ELSE CountNL(s, hi - 1) + (IF s[hi] = NL THEN 1 ELSE 0)

\* s.replace(old, new): every non-overlapping occurrence, left to right.
RECURSIVE ReplaceFrom(_, _, _, _)
ReplaceFrom(s, old, new, start) ==
    LET idx == Find(s, old, start)
    IN  IF idx = -1 THEN Slice(s, start, Len(s))
        ELSE Slice(s, start, idx) \o new \o ReplaceFrom(s, old, new, idx + Len(old))

RECURSIVE Interleave(_, _)
Interleave(s, new) ==
    IF s = << >> THEN new ELSE new \o <<Head(s)>> \o Interleave(Tail(s), new)

Replace(s, old, new) ==
    IF old = << >> THEN Interleave(s, new) ELSE ReplaceFrom(s, old, new, 0)

\* s.expandtabs(): a tab becomes the spaces up to the next tab stop (at
\* least one); the column starts again after a newline.
RECURSIVE Spaces(_)
Spaces(n) == IF n <= 0 THEN << >> ELSE <<SP>> \o Spaces(n - 1)

RECURSIVE ExpandFrom(_, _)
ExpandFrom(s, col) ==
    IF s = << >> THEN << >>
    ELSE IF Head(s) = TAB
         THEN Spaces(TabSize - (col % TabSize))
              \o ExpandFrom(Tail(s), 0)
    ELSE IF Head(s) = NL THEN <<NL>> \o ExpandFrom(Tail(s), 0)
    ELSE <<Head(s)>> \o ExpandFrom(Tail(s), col + 1)

expandtabs(s) == ExpandFrom(s, 0)

\* s.split('\n'): k newlines give k + 1 pieces, none holding a newline.
RECURSIVE split(_)
split(s) ==
    LET idx == Find(s, <<NL>>, 0)
    IN  IF idx = -1 THEN <<s>>
        ELSE <<Slice(s, 0, idx)>> \o split(Slice(s, idx + 1, Len(s)))

\* '\n'.join(parts)
RECURSIVE join(_)
join(parts) ==
    IF parts = << >> THEN << >>
    ELSE IF Len(parts) = 1 THEN parts[1]
    ELSE parts[1] \o <<NL>> \o join(Tail(parts))

\* ''.join(parts)
RECURSIVE concat(_)
concat(parts) ==
    IF parts = << >> THEN << >> ELSE Head(parts) \o concat(Tail(parts))

\* The lines a text file yields when iterated (for line in f, f.readline()):
\* each keeps its newline; a last line without newline is yielded as it is.
RECURSIVE FileLines(_)
FileLines(s) ==
    LET idx == Find(s, <<NL>>, 0)
    IN  IF s = << >> THEN << >>
        ELSE IF idx = -1 THEN <<s>>
        ELSE <<Slice(s, 0, idx + 1)>> \o FileLines(Slice(s, idx + 1, Len(s)))

\* line.rstrip('\n') of a line yielded by a file
rstripNL(line) ==
    IF line # << >> /\ line[Len(line)] = NL THEN SubSeq(line, 1, Len(line) - 1)
    ELSE line

\* len(s.splitlines()): the pieces of split, without the empty piece that
\* follows a final newline, and none for the empty string.
NumSplitlines(s) ==
    IF s = << >> THEN 0
    ELSE IF s[Len(s)] = NL THEN CountNL(s, Len(s))
    ELSE CountNL(s, Len(s)) + 1

endswithNL(s) == s # << >> /\ s[Len(s)] = NL

---------------------------------------------------------------------------
(* The file system and the inputs *)

\* The paths of the model: a text file, its sibling with the suffix .tmp,
\* a directory, and a relative path.
FilePath == "/w/f.txt"
TmpPath  == "/w/f.tmp"
DirPath  == "/w/d"
RelPath  == "f.txt"
Paths == {FilePath, TmpPath, DirPath, RelPath}

\* file_utils.py:34, path.with_suffix(path.suffix + '.tmp'): '.tmp' is
\* added to the name.  The two names below are those of the temporary
\* files of the two file paths; no command of the editor is given them.
FileTmp == "/w/f.txt.tmp"
TmpTmp == "/w/f.tmp.tmp"
Files == Paths \cup {FileTmp, TmpTmp}
suffixed_tmp(p) ==
    CASE p = FilePath -> FileTmp
      [] p = TmpPath  -> TmpTmp
      [] p = DirPath  -> "/w/d.tmp"
      [] OTHER        -> "f.txt.tmp"

\* Path.is_absolute()
is_absolute(p) == p # RelPath

\* Path.with_suffix('.tmp'): the last suffix of the name is replaced.
with_suffix_tmp(p) ==
    CASE p = FilePath -> TmpPath
      [] p = TmpPath  -> TmpPath
      [] p = DirPath  -> "/w/d.tmp"
      [] OTHER        -> "f.tmp"

Absent     == [kind |-> "none", text |-> << >>]
Directory  == [kind |-> "dir",  text |-> << >>]
File(text) == [kind |-> "file", text |-> text]

\* Bounds of the model.
MaxLen   == 5
MaxSteps == 2

Alphabet == {"a", NL, TAB}

RECURSIVE TextsOfLen(_)
TextsOfLen(n) ==
    IF n = 0 THEN {<< >>}
    ELSE {<<c>> \o t : c \in Alphabet, t \in TextsOfLen(n - 1)}

AllTexts == UNION {TextsOfLen(n) : n \in 0..MaxLen}

\* The initial contents of the multi-command specification: small and
\* large files, with and without tabs and a final newline.
SomeTexts ==
    { <<"a", NL>>,
      <<TAB, "a", NL>>,
      <<"a", "a", "a">>,
      <<"a", NL, NL, "a", NL>>,
      <<NL, NL, NL, "a">> }

Olds      == { <<"a">>, <<"a", "a">>, <<"a", NL>>, <<TAB, "a">> }
\* The old strings given to replace_string_in_file: one of them begins
\* with a newline, so that its occurrences lie across two lines.
UtilOlds == {<<"a">>, <<"a", NL>>, <<NL, "a">>}
News      == { << >>, <<"b">>, <<"a">> }
Inserted  == { <<"b">>, <<"b", NL, TAB>> }
Created  == {<<"a", NL>>, <<"a", NL, "a", NL>>, <<TAB, "a", NL>>}
Lines     == -1 .. (MaxLen + 2)
Ranges    == { << >>, <<1, -1>>, <<2, 1>>, <<0, 1>>, <<1, 2>>, <<2, 9>> }

VARIABLES
    fs,       \* path -> Absent, Directory or File(text)
    hist,     \* OHEditor._file_history: path -> stack of texts
    last,     \* the last command: its arguments, its result, the state before it
    shadow,   \* per path, the file as it was before each edit not yet undone
    nEdits,   \* per path, the successful create/str_replace/insert commands
    nUndos,   \* per path, the successful undo_edit commands
    budget,   \* commands still to run
    pc        \* the edit in progress and the statements it has yet to run

vars == <<fs, hist, last, shadow, nEdits, nUndos, budget, pc>>

exists(p) == p \in DOMAIN fs /\ fs[p].kind # "none"
is_dir(p) == p \in DOMAIN fs /\ fs[p].kind = "dir"

NoArgs == [old |-> << >>, new |-> << >>, line |-> 0, text |-> << >>,
           range |-> << >>, fault |-> "none"]

\* What a handler leaves behind: the file system, the history, the error it
\* raised ("none" for a CLIResult), the line numbers an error lists, the
\* numbered lines of the output, and whether the streaming path was taken.
Outcome(fs2, hist2, err, what, lines, out, large) ==
    [fs |-> fs2, hist |-> hist2, err |-> err, what |-> what,
     lines |-> lines, out |-> out, large |-> large, scan |-> << >>,
     ret |-> FALSE]

\* The same, with the value a function of file_utils returned.
Returned(o, value) == [o EXCEPT !.ret = value]

\* The same, with the list `occurrences` the streaming scan built.
Scanned(o, occurrences) == [o EXCEPT !.scan = occurrences]

Raise(err, what) == Outcome(fs, hist, err, what, << >>, << >>, FALSE)

\* No command is in progress: every call has returned.
Idle == [cmd |-> "none", path |-> FilePath, args |-> NoArgs,
         o |-> Outcome(<< >>, << >>, "none", "", << >>, << >>, FALSE),
         temp_text |-> << >>, pre |-> << >>, todo |-> << >>]

---------------------------------------------------------------------------
(* Helpers of OHEditor *)

\* A variant of validate_path: create is let through on a path that exists.
validate_path_overwriting(command, p) ==
    IF ~is_absolute(p) THEN "absolute"
    ELSE IF command # "create" /\ ~exists(p) THEN "missing"
    ELSE IF command # "view" /\ is_dir(p) THEN "directory"
    ELSE "none"

\* validate_path: the parameter error it raises, or "none".
validate_path(command, p) ==
    IF ~is_absolute(p) THEN "absolute"
    ELSE IF command = "create" /\ exists(p) THEN "exists"
    ELSE IF command # "create" /\ ~exists(p) THEN "missing"
    ELSE IF command # "view" /\ is_dir(p) THEN "directory"
    ELSE "none"

\* Path.write_text under a fault: "open" fails before the file is touched,
\* "write" fails after open('w') has created or truncated it.
write_text(fsys, p, text, fault) ==
    CASE fault = "open"  -> fsys
      [] fault = "write" -> [fsys EXCEPT ![p] = File(<< >>)]
      [] OTHER           -> [fsys EXCEPT ![p] = File(text)]

\* write_file raises ToolError when write_text raised.
write_file_fails(fault) == fault \in {"open", "write"}

\* The lines of a file with the final newline of each stripped.
RECURSIVE StripAll(_)
StripAll(lines) ==
    IF lines = << >> THEN << >>
    ELSE <<rstripNL(Head(lines))>> \o StripAll(Tail(lines))

\* read_file(path): read_text below the size limit, else the stripped lines
\* joined by newlines.
read_file(text) ==
    IF Len(text) < SizeLimit THEN text
    ELSE join(StripAll(FileLines(text)))

\* read_file(path, start_line, end_line), end_line = 0 standing for None:
\* the stripped lines start_line..end_line joined by newlines.
read_file_range(text, start_line, end_line) ==
    LET lines == FileLines(text)
        hi    == IF end_line = 0 THEN Len(lines) ELSE Min(end_line, Len(lines))
    IN  join(StripAll(SubSeq(lines, Max(start_line, 1), hi)))

\* _make_output: the lines of the snippet, numbered from start_line.
_make_output(snippet, start_line) ==
    LET rows == split(expandtabs(snippet))
    IN  [i \in 1..Len(rows) |-> <<i + start_line - 1, rows[i]>>]

\* list[a:b] for 0 <= a.
PySlice(seq, a, b) == SubSeq(seq, a + 1, Min(b, Len(seq)))

---------------------------------------------------------------------------
(* create and undo_edit *)

\* A variant of create: the history records that there was no file, as an
\* empty snapshot, in place of the created content.
create_pushing_empty(p, file_text, fault) ==
    IF validate_path("create", p) # "none"
    THEN Raise("InvalidParameter", "path")
    ELSE IF write_file_fails(fault)
    THEN Outcome(write_text(fs, p, file_text, fault), hist,
                 "ToolError", "write", << >>, << >>, FALSE)
    ELSE Outcome(write_text(fs, p, file_text, fault),
                 [hist EXCEPT ![p] = Append(@, << >>)],
                 "none", "", << >>, << >>, FALSE)

\* __call__, command == 'create' (lines 64-74)
create(p, file_text, fault) ==
    IF validate_path("create", p) # "none"
    THEN Raise("InvalidParameter", "path")
    ELSE IF write_file_fails(fault)
    THEN Outcome(write_text(fs, p, file_text, fault), hist,
                 "ToolError", "write", << >>, << >>, FALSE)
    ELSE Outcome(write_text(fs, p, file_text, fault),
                 [hist EXCEPT ![p] = Append(@, file_text)],
                 "none", "", << >>, << >>, FALSE)

\* `if not self._file_history[path]` (line 466)
no_history(h, p) == h[p] = << >>

\* list.pop(): the stack without its last element (line 470)
pop(stack) == SubSeq(stack, 1, Len(stack) - 1)

\* A variant of undo_edit: the file is opened for writing before the
\* history is looked at.
undo_edit_write_first(p, fault) ==
    IF validate_path("undo_edit", p) # "none"
    THEN Raise("InvalidParameter", "path")
    ELSE IF no_history(hist, p)
    THEN Outcome(write_text(fs, p, << >>, "write"), hist,
                 "ToolError", "no_history", << >>, << >>, FALSE)
    ELSE LET old_text == hist[p][Len(hist[p])]
             popped   == [hist EXCEPT ![p] = pop(@)]
         IN  IF write_file_fails(fault)
             THEN Outcome(write_text(fs, p, old_text, fault), popped,
                          "ToolError", "write", << >>, << >>, FALSE)
             ELSE Outcome(write_text(fs, p, old_text, fault), popped,
                          "none", "", << >>, _make_output(old_text, 1), FALSE)

\* undo_edit (lines 462-479)
undo_edit(p, fault) ==
    IF validate_path("undo_edit", p) # "none"
    THEN Raise("InvalidParameter", "path")
    ELSE IF no_history(hist, p)
    THEN Raise("ToolError", "no_history")
    ELSE LET old_text == hist[p][Len(hist[p])]
             popped   == [hist EXCEPT ![p] = pop(@)]
         IN  IF write_file_fails(fault)
             THEN Outcome(write_text(fs, p, old_text, fault), popped,
                          "ToolError", "write", << >>, << >>, FALSE)
             ELSE Outcome(write_text(fs, p, old_text, fault), popped,
                          "none", "", << >>, _make_output(old_text, 1), FALSE)

---------------------------------------------------------------------------
(* str_replace *)

\* The loop `pos = text.find(old_str, start); ...; start = pos + 1`
\* (lines 120-126, 174-181, 194-200): for each offset at which old_str
\* stands, first_line plus the number of newlines before it.
RECURSIVE find_lines(_, _, _, _)
find_lines(text, old_str, start, first_line) ==
    LET pos == Find(text, old_str, start)
    IN  IF pos = -1 THEN << >>
        ELSE <<first_line + CountNL(text, pos)>>
             \o find_lines(text, old_str, pos + 1, first_line)

\* The occurrences one chunk contributes (lines 170-181 and 191-200).
chunk_occurrences(current_chunk, chunk_start_line, old_str) ==
    LET chunk_text == expandtabs(concat(current_chunk))
    IN  IF Contains(chunk_text, old_str)
        THEN find_lines(chunk_text, old_str, 0, chunk_start_line)
        ELSE << >>

\* The lines kept for the next chunk (lines 184-185).
overlap_lines(current_chunk, old_str) ==
    Min(Len(current_chunk), NumSplitlines(old_str) + 1)

\* The loop over the lines of the file (lines 160-200), at line line_number.
RECURSIVE scan(_, _, _, _, _, _)
scan(lines, old_str, line_number, current_chunk, chunk_start_line, occurrences) ==
    IF line_number > Len(lines)
    THEN IF current_chunk # << >>
         THEN occurrences
              \o chunk_occurrences(current_chunk, chunk_start_line, old_str)
         ELSE occurrences
    ELSE LET chunk == Append(current_chunk, lines[line_number])
         IN  IF Len(chunk) >= ChunkLines
             THEN LET keep == overlap_lines(chunk, old_str)
                      kept == SubSeq(chunk, Len(chunk) - keep + 1, Len(chunk))
                  IN  scan(lines, old_str, line_number + 1, kept,
                           line_number - Len(kept) + 1,
                           occurrences
                           \o chunk_occurrences(chunk, chunk_start_line, old_str))
             ELSE scan(lines, old_str, line_number + 1, chunk,
                       chunk_start_line, occurrences)

chunked_occurrences(text, old_str) ==
    scan(FileLines(text), old_str, 1, << >>, 1, << >>)

\* A variant of count_occurrences: the pieces of split(old_str) are counted
\* in place of the occurrences, one too many.
count_by_split(file_content, old_str) == Count(file_content, old_str) + 1

\* `occurrences = file_content.count(old_str)` (line 111)
count_occurrences(file_content, old_str) == Count(file_content, old_str)

\* The files below the size limit (lines 109-157).
str_replace_small(p, text, old_str, new_str, fault) ==
    LET file_content     == expandtabs(read_file(text))
        occurrences      == count_occurrences(file_content, old_str)
        new_file_content == Replace(file_content, old_str, new_str)
        replacement_line == CountNL(file_content, Find(file_content, old_str, 0))
        start_line       == Max(0, replacement_line - SNIPPET_CONTEXT_WINDOW)
        end_line         == replacement_line + SNIPPET_CONTEXT_WINDOW
                            + CountNL(new_str, Len(new_str))
        snippet          == join(PySlice(split(new_file_content),
                                         start_line, end_line + 1))
    IN  IF occurrences = 0 THEN Raise("ToolError", "no_match")
        ELSE IF occurrences > 1
        THEN Outcome(fs, hist, "ToolError", "multiple",
                     find_lines(file_content, old_str, 0, 1), << >>, FALSE)
        ELSE IF write_file_fails(fault)
        THEN Outcome(write_text(fs, p, new_file_content, fault), hist,
                     "ToolError", "write", << >>, << >>, FALSE)
        ELSE Outcome(write_text(fs, p, new_file_content, fault),
                     [hist EXCEPT ![p] = Append(@, file_content)],
                     "none", "", << >>,
                     _make_output(snippet, start_line + 1), FALSE)

\* What the copy loop writes to the temporary file (lines 224-248).  When
\* the temporary file is the file itself, opening it for writing empties
\* it before the first readline.
rewritten(p, text, start_line, end_line, new_file_content) ==
    LET lines == IF with_suffix_tmp(p) = p THEN << >> ELSE FileLines(text)
    IN  concat(SubSeq(lines, 1, Min(start_line - 1, Len(lines))))
        \o new_file_content
        \o concat(SubSeq(lines, end_line + 1, Len(lines)))

\* The files at or above the size limit (lines 159-275).  A fault is a
\* failure to open the temporary file ("open"), to write to it ("write")
\* or to rename it over the file ("rename"); the finally clause unlinks
\* the temporary file when it exists.
str_replace_large(p, text, old_str, new_str, fault) ==
    LET occurrences     == chunked_occurrences(text, old_str)
        occurrence_line == occurrences[1]
        start_line      == Max(1, occurrence_line - SNIPPET_CONTEXT_WINDOW)
        end_line        == occurrence_line + SNIPPET_CONTEXT_WINDOW
                           + CountNL(new_str, Len(new_str))
        file_content    == expandtabs(read_file_range(text, start_line, end_line))
        replaced        == Replace(file_content, old_str, new_str)
        new_file_content == IF replaced # << >> /\ ~endswithNL(replaced)
                            THEN replaced \o <<NL>> ELSE replaced
        temp_file       == with_suffix_tmp(p)
        pushed          == [hist EXCEPT ![p] = Append(@, file_content)]
        renamed         == [fs EXCEPT ![p] = File(rewritten(p, text, start_line,
                                                  end_line, new_file_content))]
        emptied         == IF temp_file = p THEN [fs EXCEPT ![p] = File(<< >>)]
                           ELSE fs
        unlinked(fsys)  == [fsys EXCEPT ![temp_file] = Absent]
    IN  Scanned(
        IF occurrences = << >>
        THEN Outcome(fs, hist, "ToolError", "no_match", << >>, << >>, TRUE)
        ELSE IF Len(occurrences) > 1
        THEN Outcome(fs, hist, "ToolError", "multiple", occurrences, << >>, TRUE)
        ELSE CASE fault = "open" ->
                    Outcome(unlinked(fs), hist, "OSError", "open",
                            << >>, << >>, TRUE)
               [] fault = "write" ->
                    Outcome(unlinked(emptied), hist, "OSError", "write",
                            << >>, << >>, TRUE)
               [] fault = "rename" ->
                    Outcome(unlinked(emptied), pushed, "OSError", "rename",
                            << >>, << >>, TRUE)
               [] OTHER ->
                    Outcome(unlinked(renamed), pushed, "none", "", << >>,
                            _make_output(new_file_content, start_line), TRUE),
        occurrences)

\* What the streaming path has written to the temporary file when the
\* `with` block is left (lines 223-248), for a single occurrence.
str_replace_large_copy(p, text, old_str, new_str) ==
    LET occurrence_line == chunked_occurrences(text, old_str)[1]
        start_line      == Max(1, occurrence_line - SNIPPET_CONTEXT_WINDOW)
        end_line        == occurrence_line + SNIPPET_CONTEXT_WINDOW
                           + CountNL(new_str, Len(new_str))
        file_content    == expandtabs(read_file_range(text, start_line, end_line))
        replaced        == Replace(file_content, old_str, new_str)
        new_file_content == IF replaced # << >> /\ ~endswithNL(replaced)
                            THEN replaced \o <<NL>> ELSE replaced
    IN  rewritten(p, text, start_line, end_line, new_file_content)

\* A variant of str_replace: new_str is not compared with old_str.
str_replace_unchecked(p, old_str, new_str, fault) ==
    IF validate_path("str_replace", p) # "none"
    THEN Raise("InvalidParameter", "path")
    ELSE IF Len(fs[p].text) < SizeLimit
    THEN str_replace_small(p, fs[p].text, expandtabs(old_str),
                           expandtabs(new_str), fault)
    ELSE str_replace_large(p, fs[p].text, expandtabs(old_str),
                           expandtabs(new_str), fault)

\* str_replace (lines 98-109) behind the checks of __call__ (lines 75-84).
str_replace(p, old_str, new_str, fault) ==
    IF validate_path("str_replace", p) # "none"
    THEN Raise("InvalidParameter", "path")
    ELSE IF new_str = old_str
    THEN Raise("InvalidParameter", "new_str")
    ELSE IF Len(fs[p].text) < SizeLimit
    THEN str_replace_small(p, fs[p].text, expandtabs(old_str),
                           expandtabs(new_str), fault)
    ELSE str_replace_large(p, fs[p].text, expandtabs(old_str),
                           expandtabs(new_str), fault)

---------------------------------------------------------------------------
(* insert and view *)

\* insert (lines 366-428) behind validate_path.
insert(p, insert_line, new_str0, fault) ==
    IF validate_path("insert", p) # "none"
    THEN Raise("InvalidParameter", "path")
    ELSE
    LET large           == Len(fs[p].text) >= SizeLimit
        file_text       == expandtabs(read_file(fs[p].text))
        new_str         == expandtabs(new_str0)
        file_text_lines == split(file_text)
        num_lines       == Len(file_text_lines)
        new_str_lines   == split(new_str)
        new_file_text_lines ==
            PySlice(file_text_lines, 0, insert_line)
            \o new_str_lines
            \o PySlice(file_text_lines, insert_line, num_lines)
        snippet_lines ==
            PySlice(file_text_lines,
                    Max(0, insert_line - SNIPPET_CONTEXT_WINDOW), insert_line)
            \o new_str_lines
            \o PySlice(file_text_lines, insert_line,
                       Min(num_lines, insert_line + SNIPPET_CONTEXT_WINDOW))
        new_file_text   == join(new_file_text_lines)
    IN  IF insert_line < 0 \/ insert_line > num_lines
        THEN Outcome(fs, hist, "InvalidParameter", "insert_line",
                     << >>, << >>, large)
        ELSE IF write_file_fails(fault)
        THEN Outcome(write_text(fs, p, new_file_text, fault), hist,
                     "ToolError", "write", << >>, << >>, large)
        ELSE Outcome(write_text(fs, p, new_file_text, fault),
                     [hist EXCEPT ![p] = Append(@, file_text)],
                     "none", "", << >>,
                     _make_output(join(snippet_lines),
                                  Max(1, insert_line - SNIPPET_CONTEXT_WINDOW + 1)),
                     large)

\* A variant of view: the order of the two elements of view_range is not
\* checked.
view_unordered(p, view_range) ==
    IF validate_path("view", p) # "none"
    THEN Raise("InvalidParameter", "path")
    ELSE IF is_dir(p)
    THEN IF view_range # << >>
         THEN Raise("InvalidParameter", "view_range")
         ELSE Outcome(fs, hist, "none", "", << >>, << >>, FALSE)
    ELSE IF view_range = << >>
    THEN Outcome(fs, hist, "none", "", << >>,
                 _make_output(read_file(fs[p].text), 1), FALSE)
    ELSE IF view_range[1] < 1
    THEN Raise("InvalidParameter", "view_range")
    ELSE Outcome(fs, hist, "none", "", << >>,
                 _make_output(
                     read_file_range(fs[p].text, view_range[1],
                         IF view_range[2] # -1 THEN view_range[2] ELSE 0),
                     view_range[1]),
                 FALSE)

\* view (lines 277-355) behind validate_path; view_range is << >> when it
\* is not given.  The listing of a directory is the output of find(1) and
\* is left out.
view(p, view_range) ==
    IF validate_path("view", p) # "none"
    THEN Raise("InvalidParameter", "path")
    ELSE IF is_dir(p)
    THEN IF view_range # << >>
         THEN Raise("InvalidParameter", "view_range")
         ELSE Outcome(fs, hist, "none", "", << >>, << >>, FALSE)
    ELSE IF view_range = << >>
    THEN Outcome(fs, hist, "none", "", << >>,
                 _make_output(read_file(fs[p].text), 1), FALSE)
    ELSE LET start_line == view_range[1]
             end_line   == view_range[2]
         IN  IF start_line < 1
             THEN Raise("InvalidParameter", "view_range")
             ELSE IF end_line # -1 /\ end_line < start_line
             THEN Raise("InvalidParameter", "view_range")
             ELSE Outcome(fs, hist, "none", "", << >>,
                          _make_output(
                              read_file_range(fs[p].text, start_line,
                                  IF end_line # -1 THEN end_line ELSE 0),
                              start_line),
                          FALSE)

---------------------------------------------------------------------------
(* file_utils.py *)

\* What the loop over the lines of src writes to dst (lines 41-46): the
\* lines that hold old_str with line.replace(old_str, new_str), the others
\* as they are.
RECURSIVE replaced_lines(_, _, _)
replaced_lines(lines, old_str, new_str) ==
    IF lines = << >> THEN << >>
    ELSE (IF Contains(Head(lines), old_str)
          THEN Replace(Head(lines), old_str, new_str)
          ELSE Head(lines))
         \o replaced_lines(Tail(lines), old_str, new_str)

\* `replaced`: some line holds old_str (lines 38-44).
some_line_holds(lines, old_str) ==
    \E i \in 1..Len(lines) : Contains(lines[i], old_str)

\* The except clause (lines 57-60): the temporary file is unlinked when it
\* exists.
unlink_temp(fsys, temp_path) ==
    IF temp_path \in DOMAIN fsys
    THEN [fsys EXCEPT ![temp_path] = Absent]
    ELSE fsys

\* replace_string_in_file (lines 32-60).  A fault is a failure to open the
\* temporary file ("open"), to write to it ("write") or to rename it over
\* the file ("rename"); a path that is no file fails at open(path, 'r'),
\* before the temporary file is opened.
replace_string_in_file(p, old_str, new_str, fault) ==
    IF ~(exists(p) /\ ~is_dir(p))
    THEN Outcome(unlink_temp(fs, suffixed_tmp(p)), hist, "OSError", "open",
                 << >>, << >>, FALSE)
    ELSE
    LET temp_path == suffixed_tmp(p)
        lines     == FileLines(fs[p].text)
        replaced  == some_line_holds(lines, old_str)
        written   == replaced_lines(lines, old_str, new_str)
    IN  CASE fault = "open" ->
               Outcome(unlink_temp(fs, temp_path), hist, "OSError", "open",
                       << >>, << >>, FALSE)
          [] fault = "write" ->
               Outcome(unlink_temp(fs, temp_path), hist, "OSError", "write",
                       << >>, << >>, FALSE)
          [] fault = "rename" /\ replaced ->
               Outcome(unlink_temp(fs, temp_path), hist, "OSError", "rename",
                       << >>, << >>, FALSE)
          [] OTHER ->
               IF replaced
               THEN Returned(
                      Outcome([fs EXCEPT ![p] = File(written),
                                         ![temp_path] = Absent],
                              hist, "none", "", << >>, << >>, FALSE),
                      TRUE)
               ELSE Returned(
                      Outcome(unlink_temp(fs, temp_path), hist, "none", "",
                              << >>, << >>, FALSE),
                      FALSE)

\* The loop of find_string_in_file (lines 24-27): the number of each line
\* that holds search_str, counted from current_line.
RECURSIVE lines_holding(_, _, _)
lines_holding(lines, search_str, current_line) ==
    IF lines = << >> THEN << >>
    ELSE (IF Contains(Head(lines), search_str)
          THEN <<current_line>> ELSE << >>)
         \o lines_holding(Tail(lines), search_str, current_line + 1)

\* find_string_in_file (lines 17-29); a path that is no file fails at
\* open(path, 'r').
find_string_in_file(p, search_str) ==
    IF ~(exists(p) /\ ~is_dir(p))
    THEN Raise("OSError", "open")
    ELSE Outcome(fs, hist, "none", "",
                 lines_holding(FileLines(fs[p].text), search_str, 1),
                 << >>, FALSE)

---------------------------------------------------------------------------
(* The lines of the file a command holds at one time *)

\* len(content) when read_file(path) returns for a file at or above the
\* size limit: every line is appended before the join (lines 492-496).
read_file_held(text) == Len(FileLines(text))

\* len(content) when read_file(path, start_line, end_line) returns, with
\* end_line = 0 standing for None (lines 499-507).
read_file_range_held(text, start_line, end_line) ==
    LET lines == FileLines(text)
        hi    == IF end_line = 0 THEN Len(lines) ELSE Min(end_line, Len(lines))
    IN  Len(SubSeq(lines, Max(start_line, 1), hi))

\* The longest current_chunk of the loop over the lines of the file
\* (lines 160-185).
RECURSIVE scan_peak(_, _, _, _, _)
scan_peak(lines, old_str, line_number, current_chunk, peak) ==
    IF line_number > Len(lines) THEN peak
    ELSE LET chunk == Append(current_chunk, lines[line_number])
             top   == Max(peak, Len(chunk))
         IN  IF Len(chunk) >= ChunkLines
             THEN LET keep == overlap_lines(chunk, old_str)
                      kept == SubSeq(chunk, Len(chunk) - keep + 1, Len(chunk))
                  IN  scan_peak(lines, old_str, line_number + 1, kept, top)
             ELSE scan_peak(lines, old_str, line_number + 1, chunk, top)

\* view of a file at or above the size limit (lines 319-350): the lines
\* read_file collects.
view_held(text, view_range) ==
    IF view_range = << >> THEN read_file_held(text)
    ELSE read_file_range_held(text, view_range[1],
                              IF view_range[2] # -1 THEN view_range[2] ELSE 0)

\* insert on a file at or above the size limit: the lines read_file
\* collects (line 373), then the list file_text_lines (line 380).
insert_held(text) ==
    Max(read_file_held(text), Len(split(expandtabs(read_file(text)))))

\* str_replace on a file at or above the size limit, old_str and new_str
\* expanded: the longest chunk of the scan, then, for a single occurrence,
\* the lines of the window (line 216); the copy loop holds one line
\* (lines 224-248).
str_replace_held(text, old_str, new_str) ==
    LET occurrences == chunked_occurrences(text, old_str)
        start_line  == Max(1, occurrences[1] - SNIPPET_CONTEXT_WINDOW)
        end_line    == occurrences[1] + SNIPPET_CONTEXT_WINDOW
                       + CountNL(new_str, Len(new_str))
    IN  Max(scan_peak(FileLines(text), old_str, 1, << >>, 0),
            IF Len(occurrences) = 1
            THEN read_file_range_held(text, start_line, end_line)
            ELSE 0)

---------------------------------------------------------------------------
(* The commands as actions *)

Faults == {"none", "open", "write", "rename"}

Edits == {"create", "str_replace", "insert"}

\* The record of a command: what was asked, what came back, and the state
\* it started from.
Result(cmd, p, args, o) ==
    [cmd |-> cmd, path |-> p, args |-> args,
     ok |-> (o.err = "none"), err |-> o.err, what |-> o.what,
     lines |-> o.lines, out |-> o.out, large |-> o.large, scan |-> o.scan,
     ret |-> o.ret,
     pre |-> fs, preHist |-> hist, preShadow |-> shadow]

\* One call of OHEditor.__call__ with outcome o.  The bookkeeping variables
\* follow the successful commands: an edit records the file as it was, an
\* undo_edit drops the latest record.  A command that leaves the files and
\* the history as they were leads to no state that was not reachable
\* before it, so a run is followed up to the first such command.
Finish(cmd, p, args, o) ==
    /\ budget' = IF o.fs = fs /\ o.hist = hist THEN 0 ELSE budget - 1
    /\ fs' = o.fs
    /\ hist' = o.hist
    /\ last' = Result(cmd, p, args, o)
    /\ shadow' =
         IF o.err = "none" /\ cmd \in Edits
         THEN [shadow EXCEPT ![p] = Append(@, fs[p])]
         ELSE IF o.err = "none" /\ cmd = "undo_edit" /\ shadow[p] # << >>
         THEN [shadow EXCEPT ![p] = pop(@)]
         ELSE shadow
    /\ nEdits' = IF o.err = "none" /\ cmd \in Edits
                 THEN [nEdits EXCEPT ![p] = @ + 1] ELSE nEdits
    /\ nUndos' = IF o.err = "none" /\ cmd = "undo_edit"
                 THEN [nUndos EXCEPT ![p] = @ + 1] ELSE nUndos
    /\ pc' = pc

\* A fault is drawn only for a command that gets as far as its write.
Create(p, file_text, fault) ==
    LET clean == create(p, file_text, "none")
    IN  /\ budget > 0
        /\ fault \in {"none", "open", "write"}
        /\ fault # "none" => clean.err = "none"
        /\ Finish("create", p,
                  [NoArgs EXCEPT !.text = file_text, !.fault = fault],
                  IF fault = "none" THEN clean ELSE create(p, file_text, fault))

StrReplace(p, old_str, new_str, fault) ==
    LET clean == str_replace(p, old_str, new_str, "none")
    IN  /\ budget > 0
        /\ fault # "none" => clean.err = "none"
        /\ fault = "rename" => clean.large
        /\ Finish("str_replace", p,
                  [NoArgs EXCEPT !.old = old_str, !.new = new_str, !.fault = fault],
                  IF fault = "none" THEN clean
                  ELSE str_replace(p, old_str, new_str, fault))

Insert(p, insert_line, new_str, fault) ==
    LET clean == insert(p, insert_line, new_str, "none")
    IN  /\ budget > 0
        /\ fault \in {"none", "open", "write"}
        /\ fault # "none" => clean.err = "none"
        /\ Finish("insert", p,
                  [NoArgs EXCEPT !.line = insert_line, !.new = new_str,
                                 !.fault = fault],
                  IF fault = "none" THEN clean
                  ELSE insert(p, insert_line, new_str, fault))

UndoEdit(p, fault) ==
    LET clean == undo_edit(p, "none")
    IN  /\ budget > 0
        /\ fault \in {"none", "open", "write"}
        /\ fault # "none" => clean.err = "none"
        /\ Finish("undo_edit", p, [NoArgs EXCEPT !.fault = fault],
                  IF fault = "none" THEN clean ELSE undo_edit(p, fault))

View(p, view_range) ==
    /\ budget > 0
    /\ Finish("view", p, [NoArgs EXCEPT !.range = view_range], view(p, view_range))

\* A call of replace_string_in_file.  A fault is drawn only for a call
\* that gets as far as the temporary file, and a failure of the rename
\* only for one that renames.
ReplaceStringInFile(p, old_str, new_str, fault) ==
    LET clean == replace_string_in_file(p, old_str, new_str, "none")
    IN  /\ budget > 0
        /\ fault # "none" => exists(p) /\ ~is_dir(p)
        /\ fault = "rename" => clean.ret
        /\ Finish("replace_string_in_file", p,
                  [NoArgs EXCEPT !.old = old_str, !.new = new_str, !.fault = fault],
                  IF fault = "none" THEN clean
                  ELSE replace_string_in_file(p, old_str, new_str, fault))

\* A call of find_string_in_file.
FindStringInFile(p, search_str) ==
    /\ budget > 0
    /\ Finish("find_string_in_file", p, [NoArgs EXCEPT !.old = search_str],
              find_string_in_file(p, search_str))

\* The arguments tried on a path: all of them on the two file paths, one
\* choice on the directory and on the relative path, which validate_path
\* turns away whatever the arguments are.
For(p, values, one) == IF p \in {FilePath, TmpPath} THEN values ELSE {one}

Next ==
    \/ \E p \in Paths : \E t \in For(p, Created, <<"a", NL>>), f \in Faults :
         Create(p, t, f)
    \/ \E p \in Paths : \E o \in For(p, Olds, <<"a">>),
                            n \in For(p, News, << >>), f \in Faults :
         StrReplace(p, o, n, f)
    \/ \E p \in Paths : \E l \in For(p, Lines, 0),
                            n \in For(p, Inserted, <<"b">>), f \in Faults :
         Insert(p, l, n, f)
    \/ \E p \in Paths, f \in Faults : UndoEdit(p, f)
    \/ \E p \in Paths, r \in Ranges : View(p, r)
    \/ \E p \in Paths : \E o \in For(p, UtilOlds, <<"a">>),
                            n \in For(p, News, << >>), f \in Faults :
         ReplaceStringInFile(p, o, n, f)
    \/ \E p \in Paths : \E o \in For(p, UtilOlds, <<"a">>) :
         FindStringInFile(p, o)

\* A new editor (__init__, lines 43-45) over a directory that holds one
\* text file.
Start(texts, steps) ==
    /\ \E t \in texts :
         fs = [p \in Files |->
                 CASE p = FilePath -> File(t)
                   [] p = DirPath  -> Directory
                   [] OTHER        -> Absent]
    /\ hist = [p \in Paths |-> << >>]
    /\ shadow = [p \in Paths |-> << >>]
    /\ nEdits = [p \in Paths |-> 0]
    /\ nUndos = [p \in Paths |-> 0]
    /\ budget = steps
    /\ pc = Idle
    /\ last = [cmd |-> "none", path |-> FilePath, args |-> NoArgs,
               ok |-> TRUE, err |-> "none", what |-> "",
               lines |-> << >>, out |-> << >>, large |-> FALSE, scan |-> << >>,
               ret |-> FALSE,
               pre |-> fs, preHist |-> hist, preShadow |-> shadow]

\* Sequences of commands on a few files.
Init == Start(SomeTexts, MaxSteps)
Spec == Init /\ [][Next]_vars

\* One command on every file of at most MaxLen characters.
InitWide == Start(AllTexts, 1)
SpecWide == InitWide /\ [][Next]_vars

\* Longer sequences of writing commands on two files, one below and one
\* at the size limit.
DeepTexts == {<<"a", NL>>, <<"a", "a", "a", NL>>}
InitDeep == Start(DeepTexts, MaxSteps + 1)

\* The commands that write, the edits and undo_edit, without faults.
NextDeep ==
    \/ \E p \in Paths : \E t \in For(p, Created, <<"a", NL>>) :
         Create(p, t, "none")
    \/ \E p \in Paths : \E o \in For(p, Olds, <<"a">>),
                            n \in For(p, News, << >>) :
         StrReplace(p, o, n, "none")
    \/ \E p \in Paths : \E l \in For(p, Lines, 0),
                            n \in For(p, Inserted, <<"b">>) :
         Insert(p, l, n, "none")
    \/ \E p \in Paths : UndoEdit(p, "none")

SpecDeep == InitDeep /\ [][NextDeep]_vars

---------------------------------------------------------------------------
(* The edits, one statement at a time *)

\* The statements of a successful edit that change the file system or the
\* history, in the order of the code: write_file then append (lines 67-68,
\* 132-133, 406-407); on the streaming path the copy to the temporary
\* file, append, replace, and the unlink of the finally clause (lines
\* 223-248, 251, 254, 273-275).
statements(o) ==
    IF o.large /\ o.scan # << >>
    THEN <<"copy", "push", "rename", "unlink">>
    ELSE <<"write", "push">>

\* An edit that will succeed is entered: nothing has changed yet.
Begin(cmd, p, args, o, temp_text) ==
    /\ budget > 0
    /\ pc.todo = << >>
    /\ o.err = "none"
    /\ pc' = [cmd |-> cmd, path |-> p, args |-> args, o |-> o,
              temp_text |-> temp_text, pre |-> fs, todo |-> statements(o)]
    /\ UNCHANGED <<fs, hist, last, shadow, nEdits, nUndos, budget>>

BeginCreate(p, file_text) ==
    Begin("create", p, [NoArgs EXCEPT !.text = file_text],
          create(p, file_text, "none"), << >>)

BeginStrReplace(p, old_str, new_str) ==
    LET o == str_replace(p, old_str, new_str, "none")
    IN  Begin("str_replace", p,
              [NoArgs EXCEPT !.old = old_str, !.new = new_str], o,
              IF o.err = "none" /\ o.large
              THEN str_replace_large_copy(p, fs[p].text, expandtabs(old_str),
                                          expandtabs(new_str))
              ELSE << >>)

BeginInsert(p, insert_line, new_str) ==
    Begin("insert", p, [NoArgs EXCEPT !.line = insert_line, !.new = new_str],
          insert(p, insert_line, new_str, "none"), << >>)

\* The next statement of the edit in progress; the call returns after
\* the last one.
Statement ==
    LET p         == pc.path
        temp_file == with_suffix_tmp(p)
        stmt      == Head(pc.todo)
        rest      == Tail(pc.todo)
    IN  /\ pc.todo # << >>
        /\ fs' = CASE stmt = "write"  -> [fs EXCEPT ![p] = pc.o.fs[p]]
                   [] stmt = "copy"   -> [fs EXCEPT ![temp_file] = File(pc.temp_text)]
                   [] stmt = "rename" -> IF temp_file = p THEN fs
                                         ELSE [fs EXCEPT ![p] = fs[temp_file],
                                                         ![temp_file] = Absent]
                   [] stmt = "unlink" -> [fs EXCEPT ![temp_file] = Absent]
                   [] OTHER           -> fs
        /\ hist' = IF stmt = "push" THEN pc.o.hist ELSE hist
        /\ IF rest # << >>
           THEN /\ pc' = [pc EXCEPT !.todo = rest]
                /\ UNCHANGED <<last, shadow, nEdits, nUndos, budget>>
           ELSE /\ pc' = Idle
                /\ budget' = budget - 1
                /\ last' = [Result(pc.cmd, p, pc.args, pc.o)
                              EXCEPT !.pre = pc.pre]
                /\ shadow' = [shadow EXCEPT ![p] = Append(@, pc.pre[p])]
                /\ nEdits' = [nEdits EXCEPT ![p] = @ + 1]
                /\ UNCHANGED nUndos

NextStatements ==
    \/ \E p \in Paths : \E t \in For(p, Created, <<"a", NL>>) : BeginCreate(p, t)
    \/ \E p \in Paths : \E o \in For(p, Olds, <<"a">>),
                            n \in For(p, News, << >>) :
         BeginStrReplace(p, o, n)
    \/ \E p \in Paths : \E l \in For(p, Lines, 0),
                            n \in For(p, Inserted, <<"b">>) :
         BeginInsert(p, l, n)
    \/ Statement

SpecStatements == Init /\ [][NextStatements]_vars

---------------------------------------------------------------------------
(* The properties.  They speak of the last command (last), of the state it *)
(* started from (last.pre, last.preHist) and of the state it left.         *)

\* sub stands in s at 0-based offset i.
OccursAt(s, sub, i) ==
    /\ i + Len(sub) <= Len(s)
    /\ \A k \in 1..Len(sub) : s[i + k] = sub[k]

\* The offsets of all occurrences of sub in s, overlapping ones included.
Offsets(s, sub) == {i \in 0..Len(s) : OccursAt(s, sub, i)}

\* The 1-indexed line on which offset i of s lies.
LineAt(s, i) == 1 + Cardinality({k \in 1..i : s[k] = NL})

\* The lines on which the occurrences of sub in s begin, in file order.
OccurrenceLines(s, sub) ==
    LET S == Offsets(s, sub)
        nth(n) == CHOOSE i \in S : Cardinality({j \in S : j < i}) = n - 1
    IN  [n \in 1..Cardinality(S) |-> LineAt(s, nth(n))]

\* The number of lines of a text: its newlines, and one more for a last
\* line without newline.
LineCount(s) ==
    Cardinality({k \in 1..Len(s) : s[k] = NL})
    + (IF s # << >> /\ s[Len(s)] # NL THEN 1 ELSE 0)

\* s with its only occurrence of old replaced by new.
ReplaceOnly(s, old, new) ==
    LET i == CHOOSE j \in Offsets(s, old) : TRUE
    IN  SubSeq(s, 1, i) \o new \o SubSeq(s, i + Len(old) + 1, Len(s))

\* s with the lines of new placed after its first k lines.
InsertAfterLine(s, k, new) ==
    LET at     == IF k = 0 THEN 0
                  ELSE IF k <= Cardinality({i \in 1..Len(s) : s[i] = NL})
                  THEN CHOOSE i \in 1..Len(s) :
                         /\ s[i] = NL
                         /\ Cardinality({j \in 1..i : s[j] = NL}) = k
                  ELSE Len(s)
    IN  IF at = Len(s) /\ s # << >> /\ s[Len(s)] # NL
        THEN s \o <<NL>> \o new
        ELSE SubSeq(s, 1, at) \o new \o <<NL>> \o SubSeq(s, at + 1, Len(s))

\* The last command was `cmd` on an absolute path that held a text file.
OnFile(cmd) ==
    /\ last.cmd = cmd
    /\ is_absolute(last.path)
    /\ last.pre[last.path].kind = "file"

Before == last.pre[last.path].text
NoFault == last.args.fault = "none"
NothingChanged == fs = last.pre /\ hist = last.preHist
PathUnchanged ==
    /\ fs[last.path] = last.pre[last.path]
    /\ hist[last.path] = last.preHist[last.path]

\* C1: after a successful undo_edit the file is, character for character,
\* what it was immediately before the edit that the undo reverts (an edit
\* of a file that existed: str_replace or insert).
C1_UndoRestoresExactly ==
    (/\ last.cmd = "undo_edit" /\ last.ok
     /\ last.preShadow[last.path] # << >>
     /\ last.preShadow[last.path][Len(last.preShadow[last.path])].kind = "file")
    => fs[last.path] = last.preShadow[last.path][Len(last.preShadow[last.path])]

\* C2: undo_edit on an existing file whose history stack is empty fails
\* with ToolError and changes neither a file nor a history stack.
C2_UndoWithoutHistoryFails ==
    (OnFile("undo_edit") /\ last.preHist[last.path] = << >>)
    => /\ ~last.ok
       /\ last.err = "ToolError"
       /\ NothingChanged

C2_Witness ==
    /\ OnFile("undo_edit")
    /\ last.preHist[last.path] = << >>
    /\ last.err = "ToolError" /\ last.what = "no_history"
    /\ Before # << >>

\* C3: the depth of the history stack of every path is the number of
\* successful create/str_replace/insert commands on it minus the number
\* of successful undo_edit commands on it.
C3_DepthCountsCommands ==
    \A p \in Paths : Len(hist[p]) = nEdits[p] - nUndos[p]

\* C4: a create, str_replace, insert or undo_edit that fails leaves the
\* file and the history stack of its path as they were.
C4_AllOrNothing ==
    (last.cmd \in Edits \cup {"undo_edit"} /\ ~last.ok) => PathUnchanged

\* C5: str_replace on a file in which the tab-expanded old_str does not
\* occur fails, and changes neither a file nor a history stack, on the
\* whole-file path and on the streaming path.
C5_NoMatchFails ==
    (OnFile("str_replace")
     /\ Offsets(expandtabs(Before), expandtabs(last.args.old)) = {})
    => /\ ~last.ok
       /\ NothingChanged

C5_Witness ==
    /\ OnFile("str_replace")
    /\ Offsets(expandtabs(Before), expandtabs(last.args.old)) = {}
    /\ last.what = "no_match"
    /\ last.large
    /\ Before # expandtabs(Before)

\* C6: when old_str occurs N > 1 times, str_replace fails, lists the N
\* lines on which the occurrences begin and changes nothing; when it
\* occurs once, str_replace does not fail as ambiguous.
C6_AmbiguousExactlyWhenSeveral ==
    (OnFile("str_replace") /\ last.args.old # last.args.new)
    => LET text == expandtabs(Before)
           old  == expandtabs(last.args.old)
           N    == Cardinality(Offsets(text, old))
       IN  /\ N > 1 => /\ ~last.ok
                       /\ last.what = "multiple"
                       /\ last.lines = OccurrenceLines(text, old)
                       /\ NothingChanged
           /\ N = 1 => last.what # "multiple"

\* C7: when old_str occurs exactly once in the file, str_replace succeeds
\* and the file is the former file with that occurrence replaced by
\* new_str and every other character unchanged.
C7_UniqueOccurrenceReplaced ==
    (/\ OnFile("str_replace") /\ NoFault
     /\ last.args.old # last.args.new
     /\ Cardinality(Offsets(Before, last.args.old)) = 1
     /\ Cardinality(Offsets(expandtabs(Before), expandtabs(last.args.old))) = 1)
    => /\ last.ok
       /\ fs[last.path] =
            File(ReplaceOnly(Before, last.args.old, expandtabs(last.args.new)))

\* C8: the occurrences found by the chunked scan of the streaming path are
\* those found by a scan of the whole file as one chunk.
C8_ChunkedScanIsWholeScan ==
    (OnFile("str_replace") /\ last.large)
    => last.scan = chunk_occurrences(FileLines(Before), 1,
                                     expandtabs(last.args.old))

\* C9: insert with 0 <= insert_line <= line count succeeds and the file is
\* the first insert_line lines of the former file, then the lines of
\* new_str, then the remaining lines, otherwise unchanged.
C9_InsertPlacesLines ==
    (/\ OnFile("insert") /\ NoFault
     /\ 0 <= last.args.line /\ last.args.line <= LineCount(Before))
    => /\ last.ok
       /\ fs[last.path] =
            File(InsertAfterLine(Before, last.args.line,
                                 expandtabs(last.args.new)))

\* C10: insert with insert_line < 0 or insert_line greater than the number
\* of lines of the file fails with an invalid-parameter error for
\* insert_line and changes nothing.
C10_InsertLineOutOfRangeFails ==
    (OnFile("insert")
     /\ (last.args.line < 0 \/ last.args.line > LineCount(Before)))
    => /\ last.err = "InvalidParameter" /\ last.what = "insert_line"
       /\ NothingChanged

\* The last command was a view of a text file with a view_range.
ViewWithRange == OnFile("view") /\ last.args.range # << >>

\* C11: view of a file with a view_range whose start is below 1 or beyond
\* the last line, or whose end is beyond the last line, fails with an
\* invalid-parameter error for view_range.
C11_ViewRangeBeyondFileFails ==
    (/\ ViewWithRange
     /\ \/ last.args.range[1] < 1
        \/ last.args.range[1] > LineCount(Before)
        \/ last.args.range[2] > LineCount(Before))
    => last.err = "InvalidParameter" /\ last.what = "view_range"

\* C12: view of a file with a view_range [start, end], end # -1 and
\* end < start, fails with an invalid-parameter error for view_range,
\* outputs no line of the file and changes neither a file nor a history.
C12_ViewRangeBackwardsFails ==
    (/\ ViewWithRange
     /\ last.args.range[2] # -1
     /\ last.args.range[2] < last.args.range[1])
    => /\ last.err = "InvalidParameter" /\ last.what = "view_range"
       /\ last.out = << >>
       /\ NothingChanged

C12_Witness ==
    /\ ViewWithRange
    /\ last.args.range = <<2, 1>>
    /\ LineCount(Before) >= 2
    /\ last.err = "InvalidParameter" /\ last.what = "view_range"

\* The lines of a text, without their newlines, in file order.
LinesOf(s) == StripAll(FileLines(s))

\* C13: view of a file without view_range outputs one numbered line per
\* line of the file, numbered from 1 in file order, and no numbered line
\* after the last one.
C13_ViewNumbersEachLineOnce ==
    (OnFile("view") /\ last.args.range = << >>)
    => /\ last.ok
       /\ Len(last.out) = LineCount(Before)
       /\ \A i \in 1..Len(last.out) :
            last.out[i] = <<i, expandtabs(LinesOf(Before)[i])>>

\* The path of the last command was one that validate_path turns away:
\* relative, existing for create, missing for another command, or a
\* directory for a command other than view.
PathInvalid ==
    LET before == last.pre[last.path].kind
    IN  \/ ~is_absolute(last.path)
        \/ last.cmd = "create" /\ before # "none"
        \/ last.cmd # "create" /\ before = "none"
        \/ last.cmd # "view" /\ before = "dir"

\* The commands of the editor (the Literal `Command`, lines 18-26).
Commands == Edits \cup {"undo_edit", "view"}

\* C14: a command of the editor on a path that validate_path turns away fails with an
\* invalid-parameter error for path and changes neither a file nor a
\* history stack; create never overwrites an existing file.
C14_InvalidPathFailsFirst ==
    (last.cmd \in Commands /\ PathInvalid)
    => /\ last.err = "InvalidParameter" /\ last.what = "path"
       /\ NothingChanged

C14_Witness ==
    /\ last.cmd = "create"
    /\ last.pre[last.path].kind = "file"
    /\ last.preHist[last.path] # << >>
    /\ last.pre[last.path].text # last.args.text
    /\ last.err = "InvalidParameter" /\ last.what = "path"

\* C15: str_replace with new_str equal to old_str fails with an
\* invalid-parameter error for new_str, whether or not old_str occurs in
\* the file, and changes neither a file nor a history stack.
C15_SameStringsFail ==
    (OnFile("str_replace") /\ last.args.new = last.args.old)
    => /\ last.err = "InvalidParameter" /\ last.what = "new_str"
       /\ NothingChanged

C15_Witness ==
    /\ OnFile("str_replace")
    /\ last.args.new = last.args.old
    /\ Cardinality(Offsets(Before, last.args.old)) = 1
    /\ last.err = "InvalidParameter" /\ last.what = "new_str"

\* C16: undo is last-in-first-out per path: after successful str_replace
\* and insert commands on a path and successful undo_edit commands on it,
\* as many entries on the history stack as edits not yet undone, a
\* successful undo_edit leaves the file as it was before the latest edit
\* not yet undone.
C16_UndoIsLastInFirstOut ==
    LET before == last.preShadow[last.path]
        d      == Len(before)
    IN  (/\ last.cmd = "undo_edit" /\ last.ok
         /\ d >= 1
         /\ Len(last.preHist[last.path]) = d
         /\ \A i \in 1..d : before[i].kind = "file")
        => /\ fs[last.path] = before[d]
           /\ Len(hist[last.path]) = d - 1

\* The last command was a create, without fault, on an absolute path that
\* did not exist.
CreateOfNewFile ==
    /\ last.cmd = "create" /\ NoFault
    /\ is_absolute(last.path)
    /\ last.pre[last.path].kind = "none"

\* The last command was a successful undo_edit of a create: the latest
\* edit not yet undone found no file, and the file is still as created.
UndoOfCreate ==
    LET before == last.preShadow[last.path]
        stack  == last.preHist[last.path]
    IN  /\ last.cmd = "undo_edit" /\ last.ok
        /\ before # << >> /\ before[Len(before)].kind = "none"
        /\ stack # << >>
        /\ last.pre[last.path] = File(stack[Len(stack)])

OtherPath ==
    IF last.large
    THEN str_replace_small(last.path, Before, expandtabs(last.args.old),
                           expandtabs(last.args.new), "none")
    ELSE str_replace_large(last.path, Before, expandtabs(last.args.old),
                           expandtabs(last.args.new), "none")

\* C18: the whole-file path and the streaming path of str_replace give,
\* for the same file, old_str and new_str, the same outcome (success, no
\* match, or several matches on the same lines), the same file, and the
\* same snapshot on top of the history stack.
C18_BothPathsAgree ==
    (/\ OnFile("str_replace") /\ NoFault
     /\ last.path = FilePath
     /\ last.args.old # last.args.new)
    => LET other == OtherPath
           top(stack) == stack[Len(stack)]
       IN  /\ last.err = other.err
           /\ last.what = other.what
           /\ last.lines = other.lines
           /\ last.ok /\ other.err = "none"
              => /\ fs[last.path] = other.fs[last.path]
                 /\ top(hist[last.path]) = top(other.hist[last.path])

\* C19: replace_string_in_file returns true exactly when old occurs in the
\* text of the file, an old that holds a newline included; it then leaves
\* the file with every occurrence of old replaced by new and the rest as
\* it was, and leaves the file unchanged when it returns false.
C19_ReplacesEveryOccurrence ==
    (OnFile("replace_string_in_file") /\ NoFault)
    => LET occurs == Offsets(Before, last.args.old) # {}
       IN  /\ last.ok
           /\ last.ret = occurs
           /\ occurs => fs[last.path] =
                          File(Replace(Before, last.args.old, last.args.new))
           /\ ~last.ret => NothingChanged

\* The last command was a streaming rewrite of a text file: a call of
\* replace_string_in_file, or a str_replace on the streaming path that
\* found one occurrence.
StreamingRewrite ==
    \/ OnFile("replace_string_in_file")
    \/ /\ OnFile("str_replace") /\ last.large
       /\ Len(last.scan) = 1

\* The temporary file of the last command.
TempOfLast ==
    IF last.cmd = "str_replace" THEN with_suffix_tmp(last.path)
    ELSE suffixed_tmp(last.path)

\* The last command renamed its temporary file over the file.
Renamed ==
    IF last.cmd = "str_replace" THEN last.ok ELSE last.ok /\ last.ret

\* C20: after a streaming rewrite, on every way out, the temporary file
\* is gone and the file is there; unless the temporary file was renamed
\* over it, the file is what it was before the call.
C20_RewriteKeepsOriginal ==
    StreamingRewrite
    => /\ fs[TempOfLast].kind = "none" \/ TempOfLast = last.path
       /\ fs[last.path].kind = "file"
       /\ ~Renamed => fs[last.path] = last.pre[last.path]

\* C21: find_string_in_file returns, in ascending order, one line number
\* for each occurrence of the needle in the text of the file, the line on
\* which the occurrence begins: several on one line give that line several
\* times, and an occurrence of a needle that holds a newline is found.
C21_FindListsEveryOccurrence ==
    OnFile("find_string_in_file")
    => /\ last.ok
       /\ last.lines = OccurrenceLines(Before, last.args.old)

\* C22: after replace_string_in_file has replaced old by new, old not
\* being a substring of new, old occurs nowhere in the file and
\* find_string_in_file finds it on no line.
C22_OldVanishes ==
    (/\ OnFile("replace_string_in_file") /\ NoFault
     /\ last.ok /\ last.ret
     /\ Offsets(last.args.new, last.args.old) = {})
    => /\ Offsets(fs[last.path].text, last.args.old) = {}
       /\ lines_holding(FileLines(fs[last.path].text), last.args.old, 1) = << >>

\* The last command was a view, str_replace or insert that read a text
\* file at or above the size limit.
ReadLargeFile ==
    /\ last.cmd \in {"view", "str_replace", "insert"}
    /\ OnFile(last.cmd)
    /\ Len(Before) >= SizeLimit
    /\ last.cmd = "view" => last.ok
    /\ last.cmd = "str_replace" => last.args.old # last.args.new

\* The lines of the file the last command held at one time.
Held ==
    CASE last.cmd = "view"   -> view_held(Before, last.args.range)
      [] last.cmd = "insert" -> insert_held(Before)
      [] OTHER -> str_replace_held(Before, expandtabs(last.args.old),
                                   expandtabs(last.args.new))

\* The constant of the last command: the lines of a chunk with its
\* overlap, or the lines of the window asked for.
HeldBound ==
    CASE last.cmd = "view" /\ last.args.range # << >>
                           /\ last.args.range[2] # -1 ->
           Max(ChunkLines, last.args.range[2] - last.args.range[1] + 1)
      [] last.cmd = "view" /\ ~(last.args.range # << >>
                                /\ last.args.range[2] # -1) ->
           ChunkLines
      [] last.cmd = "insert" ->
           Max(ChunkLines,
               2 * SNIPPET_CONTEXT_WINDOW
               + Len(split(expandtabs(last.args.new))))
      [] OTHER ->
           Max(ChunkLines + NumSplitlines(expandtabs(last.args.old)) + 1,
               2 * SNIPPET_CONTEXT_WINDOW + 1
               + CountNL(expandtabs(last.args.new),
                         Len(expandtabs(last.args.new))))

\* C23: a view, str_replace or insert on a file at or above the size limit
\* holds at one time no more lines of the file than a constant, the lines
\* of a chunk with its overlap or of the window asked for, whatever the
\* number of lines of the file.
C23_HeldLinesBounded == ReadLargeFile => Held <= HeldBound

\* An edit is in progress.
InProgress == pc.todo # << >>

\* The snapshot of the edit in progress is on the history stack of its path.
SnapshotPushed == hist[pc.path] = pc.o.hist[pc.path]

\* C24: at no point of a create, str_replace or insert is the file of the
\* command changed while the snapshot of the command is not yet on the
\* history stack of its path.
C24_SnapshotBeforeMutation ==
    (InProgress /\ fs[pc.path] # pc.pre[pc.path]) => SnapshotPushed

\* The lines of the file as the last command left it: the pieces between
\* its newlines, the empty piece after a final newline included.
PostLines == split(fs[last.path].text)

\* Row i of the numbered snippet of the last command carries the number
\* and the text, tabs expanded, of one line of the file as it is now.
RowIsLineOfFile(i) ==
    LET number == last.out[i][1]
        text   == last.out[i][2]
    IN  /\ number \in 1..Len(PostLines)
        /\ text = expandtabs(PostLines[number])

\* C25: after a successful str_replace or insert, every row of the
\* numbered snippet carries the 1-indexed number of a line of the edited
\* file and the text of that line, on the whole-file path and on the
\* streaming path.
C25_SnippetShowsEditedFile ==
    (last.cmd \in {"str_replace", "insert"} /\ OnFile(last.cmd) /\ last.ok
     /\ fs[last.path].kind = "file")
    => \A i \in 1..Len(last.out) : RowIsLineOfFile(i)

\* The history stack of the path of the last command is as it was, or has
\* one entry more on top after a successful edit, or its top entry less
\* after a successful undo_edit; the entries below are as they were.
StackPushedOrPopped ==
    LET before == last.preHist[last.path]
        after  == hist[last.path]
    IN  \/ after = before
        \/ /\ last.cmd \in Edits /\ last.ok
           /\ Len(after) = Len(before) + 1
           /\ SubSeq(after, 1, Len(before)) = before
        \/ /\ last.cmd = "undo_edit" /\ last.ok
           /\ before # << >>
           /\ after = pop(before)

\* C26: the history changes only by a push of a successful create,
\* str_replace or insert and a pop of a successful undo_edit: a view,
\* failed or not, changes no file and no history stack, a command on one
\* path leaves the stacks of the other paths as they were, and the
\* entries that stay on a stack are not modified.
C26_HistoryOnlyPushedAndPopped ==
    last.cmd \in Commands
    => /\ last.cmd = "view" => NothingChanged
       /\ \A q \in Paths \ {last.path} : hist[q] = last.preHist[q]
       /\ StackPushedOrPopped

\* C27: a str_replace on a file, failed or not, leaves every other file
\* as it was, the file of the same name with the suffix .tmp included;
\* and a file that has the suffix .tmp itself is still there, with its
\* former content when the command failed.
C27_StrReplaceTouchesOnlyItsFile ==
    OnFile("str_replace")
    => /\ \A q \in Files \ {last.path} : fs[q] = last.pre[q]
       /\ last.path = TmpPath
          => /\ fs[last.path].kind = "file"
             /\ (~last.ok /\ NoFault) => fs[last.path] = last.pre[last.path]

\* C28: a str_replace that reports success has changed the text of the
\* file and pushed one entry: the file differs from what it was before
\* the call, old_str and new_str differing only in tabs and spaces and an
\* old_str that ends beyond the window of the streaming path included.
C28_SuccessMeansChanged ==
    (OnFile("str_replace") /\ last.ok)
    => /\ fs[last.path].kind = "file"
       /\ fs[last.path].text # Before

=============================================================================
